---- MODULE Spec2Model ----
(***************************************************************************)
(* Model of the single-page UI controller in src/index.tsx: the sketch     *)
(* canvas, the two file inputs, the affordance flags kept by               *)
(* updateUIState, and the asynchronous generation operation                *)
(* handleGenerateClick with its suspension points (file reads, the call    *)
(* to the generative service).                                             *)
(*                                                                         *)
(* Every event handler runs to completion (one action per handler); an     *)
(* async function is cut at its awaits, one action per resumption.         *)
(* Handlers are written as operators on a record of the whole program      *)
(* state, so that a handler calling clearCanvas() and then                 *)
(* updateUIState() is the composition of the operators.                    *)
(***************************************************************************)
EXTENDS Integers, Sequences, FiniteSets, TLC

\* ------------------------------------------------------------- bounds
\* number of activation records of handleGenerateClick the model can hold
MaxGens == 2
\* longest list of content parts in a response of the service
MaxRespLen == 2

\* -------------------------------------------------------------- values
NULL == "null"
\* the files the user can pick, by name
Files == {"a.png", "b.jpg"}
\* corrected pointer positions on the canvas (getPosition)
Pos == {"p", "q"}
Gens == 1 .. MaxGens

\* file.type of a picked file
FileType(f) == IF f = "a.png" THEN "image/png" ELSE "image/jpeg"

ModelTypes == {"female", "male"}
Descriptions == {"", "silk gown"}
RealismValues == {50, 100}
DefaultDescription == "a stunning fashion design"

\* payloads of image parts: what was encoded, not the bytes
NoData == [src |-> "none", file |-> NULL, raster |-> {}]
NoText == [modelInfo |-> "", userDescription |-> "", realism |-> -1]

\* reader.result of a successful readAsDataURL is "data:<type>;base64,<b64>";
\* split(',')[1] keeps the base64 text of the file's bytes
Base64OfFile(f) == [src |-> "file", file |-> f, raster |-> {}]
\* canvas.toDataURL('image/png') then split(',')[1]: the PNG of the raster
Base64OfCanvasPNG(raster) == [src |-> "canvas", file |-> NULL, raster |-> raster]

InlinePart(data, mime) ==
    [kind |-> "inlineData", data |-> data, mimeType |-> mime, text |-> NoText]
TextPart(t) ==
    [kind |-> "text", data |-> NoData, mimeType |-> "", text |-> t]

\* the content parts a response may carry: text, or an image
RespParts == {"text", "img1", "img2"}
Responses == UNION {[1 .. n -> RespParts] : n \in 0 .. MaxRespLen}
\* how the awaited generateContent settles: rejected, or a response
Outcomes == {[ok |-> FALSE, parts |-> <<>>]} \cup
            {[ok |-> TRUE, parts |-> r] : r \in Responses}

\* an activation record of handleGenerateClick: where it is suspended, the
\* parts pushed so far, the file being read, and (history, for the
\* properties only) the prompt values as they were when it was triggered
IdleGen == [pc |-> "idle", parts |-> <<>>, reading |-> NULL,
            atClick |-> NoText]

VARIABLES
    sketchFile,      \* let sketchFile: File | null
    modelFile,       \* let modelFile: File | null
    isDrawing,       \* let isDrawing
    hasDrawn,        \* let hasDrawn
    canvas,          \* raster of sketchCanvas: the set of painted positions
    ctxPath,         \* current path of ctx: the points moved / lined to
    ctxPen,          \* last point of the current path (NULL: none)
    disabled,        \* elements carrying the CSS class 'disabled'
    sketchInput,     \* sketchUploadInput.files[0] (NULL: empty)
    modelInput,      \* modelUploadInput.files[0] (NULL: empty)
    sketchPreview,   \* sketchPreview.style.display
    modelPreview,    \* modelPreview.style.display
    modelType,       \* modelTypeSelect.value
    description,     \* designDescription.value
    realism,         \* realismSlider.value
    realismValue,    \* realismValue.textContent, as the number shown
    btnDisabled,     \* generateBtn.disabled
    placeholderHidden, \* placeholder has class 'hidden'
    placeholderHTML, \* placeholder.innerHTML: "initial" or the error shown
    resultHidden,    \* resultImage has class 'hidden'
    resultSrc,       \* resultImage.src: the image shown ("" : none)
    loadingHidden,   \* loading has class 'hidden'
    gens,            \* activation records of handleGenerateClick
    ev,              \* the event handled last: its kind ("pointer" for the
                     \* canvas events, "input" for edits of the slider, the
                     \* description and the preset), the file of a change
                     \* event, whether the handler called alert(), and the
                     \* parts it submitted to generateContent (<<>>: no call),
                     \* and how generateContent settled (<<>>: not this event)
    tracking         \* history switch, never changed: whether a suspended
                     \* generation remembers the prompt values of its click

vars == <<sketchFile, modelFile, isDrawing, hasDrawn, canvas, ctxPath, ctxPen,
          disabled, sketchInput, modelInput, sketchPreview, modelPreview,
          modelType, description, realism, realismValue, btnDisabled,
          placeholderHidden, placeholderHTML, resultHidden, resultSrc,
          loadingHidden, gens, ev, tracking>>

\* the program state as one record
Cur ==
    [sketchFile |-> sketchFile, modelFile |-> modelFile,
     isDrawing |-> isDrawing, hasDrawn |-> hasDrawn, canvas |-> canvas,
     ctxPath |-> ctxPath, ctxPen |-> ctxPen, disabled |-> disabled,
     sketchInput |-> sketchInput, modelInput |-> modelInput,
     sketchPreview |-> sketchPreview, modelPreview |-> modelPreview,
     modelType |-> modelType, description |-> description,
     realism |-> realism, realismValue |-> realismValue,
     btnDisabled |-> btnDisabled, placeholderHidden |-> placeholderHidden,
     placeholderHTML |-> placeholderHTML, resultHidden |-> resultHidden,
     resultSrc |-> resultSrc, loadingHidden |-> loadingHidden,
     gens |-> gens, alert |-> FALSE, request |-> <<>>, settled |-> <<>>]

\* the next state is record s, after handler name ran (on file f)
Commit(s0, name, f) == \E s \in {s0} :
    /\ sketchFile' = s.sketchFile
    /\ modelFile' = s.modelFile
    /\ isDrawing' = s.isDrawing
    /\ hasDrawn' = s.hasDrawn
    /\ canvas' = s.canvas
    /\ ctxPath' = s.ctxPath
    /\ ctxPen' = s.ctxPen
    /\ disabled' = s.disabled
    /\ sketchInput' = s.sketchInput
    /\ modelInput' = s.modelInput
    /\ sketchPreview' = s.sketchPreview
    /\ modelPreview' = s.modelPreview
    /\ modelType' = s.modelType
    /\ description' = s.description
    /\ realism' = s.realism
    /\ realismValue' = s.realismValue
    /\ btnDisabled' = s.btnDisabled
    /\ placeholderHidden' = s.placeholderHidden
    /\ placeholderHTML' = s.placeholderHTML
    /\ resultHidden' = s.resultHidden
    /\ resultSrc' = s.resultSrc
    /\ loadingHidden' = s.loadingHidden
    /\ gens' = s.gens
    /\ ev' = [name |-> name, file |-> f, alert |-> s.alert,
              request |-> s.request, settled |-> s.settled]
    /\ tracking' = tracking

\* ------------------------------------------------------- updateUIState
\* classList.add / classList.remove of 'disabled' on element e
SetDisabled(flags, e, on) == IF on THEN flags \cup {e} ELSE flags \ {e}

updateUIState(s) ==
    [s EXCEPT !.disabled =
        SetDisabled(
            SetDisabled(
                SetDisabled(@, "canvasBox", s.sketchFile # NULL),
                "uploadBox", s.hasDrawn),
            "modelTypeSelect", s.modelFile # NULL)]

\* --------------------------------------------------------- clearCanvas
clearCanvas_keepHasDrawn(s) ==
    updateUIState([s EXCEPT !.canvas = {},
                            !.sketchFile = NULL,
                            !.sketchInput = NULL,
                            !.sketchPreview = "none"])
clearCanvas_keepRaster(s) ==
    updateUIState([s EXCEPT !.hasDrawn = FALSE,
                            !.sketchFile = NULL,
                            !.sketchInput = NULL,
                            !.sketchPreview = "none"])
clearCanvas(s) ==
    updateUIState([s EXCEPT !.canvas = {},
                            !.hasDrawn = FALSE,
                            !.sketchFile = NULL,
                            !.sketchInput = NULL,
                            !.sketchPreview = "none"])

\* ------------------------------------- sketch / model upload listeners
\* body of the 'change' listener of sketchUploadInput when files[0] exists
sketchUploadListener_keepDrawing(s) ==
    updateUIState([s EXCEPT !.sketchFile = s.sketchInput,
                            !.sketchPreview = "block"])
sketchUploadListener(s) ==
    updateUIState(clearCanvas([s EXCEPT !.sketchFile = s.sketchInput,
                                        !.sketchPreview = "block"]))

\* body of the 'change' listener of modelUploadInput when files[0] exists
modelUploadListener(s) ==
    updateUIState([s EXCEPT !.modelFile = s.modelInput,
                            !.modelPreview = "block"])

\* ------------------------------------------------------ canvas drawing
startDrawing_noRefresh(s, pos) ==
    IF s.sketchFile # NULL THEN s
    ELSE [s EXCEPT !.isDrawing = TRUE, !.hasDrawn = TRUE,
                   !.ctxPath = {pos}, !.ctxPen = pos]
startDrawing(s, pos) ==
    IF s.sketchFile # NULL THEN s
    ELSE [updateUIState([s EXCEPT !.isDrawing = TRUE, !.hasDrawn = TRUE])
            EXCEPT !.ctxPath = {pos}, !.ctxPen = pos]

\* ctx.lineTo(pos); ctx.stroke(): the whole current path is painted
draw(s, pos) ==
    IF ~s.isDrawing \/ s.sketchFile # NULL THEN s
    ELSE [s EXCEPT !.ctxPath = @ \cup {pos},
                   !.ctxPen = pos,
                   !.canvas = @ \cup s.ctxPath \cup {pos}]

stopDrawing(s) == [s EXCEPT !.isDrawing = FALSE]

\* --------------------------------------------------- payload encoders
\* the Part a settled fileToGenerativePart(file) returns
fileToGenerativePart(f) == InlinePart(Base64OfFile(f), FileType(f))

canvasToGenerativePart(raster) ==
    InlinePart(Base64OfCanvasPNG(raster), "image/png")

\* ------------------------------------------------- handleGenerateClick
SetGen(s, g, pc, parts, reading) ==
    [s EXCEPT !.gens[g] =
        [pc |-> pc, parts |-> parts, reading |-> reading,
         atClick |-> IF pc \in {"awaitSketch", "awaitModel"}
                     THEN s.gens[g].atClick ELSE NoText]]

\* the guard of the early return: no sketch source
noSketchSource_never(s) == FALSE
noSketchSource(s) == s.sketchFile = NULL /\ ~s.hasDrawn

\* 1. Set loading state
setLoadingState_noDisable(s) ==
    [s EXCEPT !.placeholderHidden = TRUE,
              !.resultHidden = TRUE,
              !.loadingHidden = FALSE]
setLoadingState_keepResult(s) ==
    [s EXCEPT !.btnDisabled = TRUE,
              !.placeholderHidden = TRUE,
              !.loadingHidden = FALSE]
setLoadingState(s) ==
    [s EXCEPT !.btnDisabled = TRUE,
              !.placeholderHidden = TRUE,
              !.resultHidden = TRUE,
              !.loadingHidden = FALSE]

\* 4. the text prompt, as the three values interpolated into it
textPrompt_alwaysPreset(s) ==
    [modelInfo |-> IF s.modelType = "female" THEN "a female model"
                   ELSE "a male model",
     userDescription |-> IF s.description # "" THEN s.description
                         ELSE DefaultDescription,
     realism |-> s.realism]
textPrompt(s) ==
    [modelInfo |-> IF s.modelFile # NULL THEN "the uploaded model"
                   ELSE IF s.modelType = "female" THEN "a female model"
                   ELSE "a male model",
     userDescription |-> IF s.description # "" THEN s.description
                         ELSE DefaultDescription,
     realism |-> s.realism]

\* 4.-5. push the text part and call generateContent({contents: {parts}})
callGenerateContent_textFirst(s, g, parts) ==
    [SetGen(s, g, "awaitApi", <<>>, NULL)
        EXCEPT !.request = <<TextPart(textPrompt(s))>> \o parts]
callGenerateContent(s, g, parts) ==
    [SetGen(s, g, "awaitApi", <<>>, NULL)
        EXCEPT !.request = Append(parts, TextPart(textPrompt(s)))]

\* 3. Add model part (if available), then go on to 4.
addModelPart(s, g, parts) ==
    IF s.modelFile # NULL
    THEN SetGen(s, g, "awaitModel", parts, s.modelFile)
    ELSE callGenerateContent(s, g, parts)

\* 2. Add sketch part (prioritize uploaded file), then go on to 3.
addSketchPart(s, g) ==
    IF s.sketchFile # NULL
    THEN SetGen(s, g, "awaitSketch", <<>>, s.sketchFile)
    ELSE IF s.hasDrawn
    THEN addModelPart(s, g, <<canvasToGenerativePart(s.canvas)>>)
    ELSE addModelPart(s, g, <<>>)

\* the click handler, up to its first suspension point
handleGenerateClick(s, g) ==
    IF noSketchSource(s)
    THEN [s EXCEPT !.alert = TRUE]
    ELSE addSketchPart(setLoadingState(s), g)

\* reader.onloadend of the file read generation g awaits.  A read that
\* succeeded resolves the promise and the function resumes.  After a failed
\* read reader.result is null, the callback throws on .split before it
\* calls resolve, and the promise stays pending for ever: nothing can read
\* the locals of that activation again.
onloadend_reencode(s, g, ok) ==
    LET gen == s.gens[g]
        parts == <<canvasToGenerativePart(s.canvas),
                   fileToGenerativePart(gen.reading)>>
    IN  IF ~ok THEN SetGen(s, g, "pending", <<>>, NULL)
        ELSE IF gen.pc = "awaitSketch"
        THEN addModelPart(s, g, <<fileToGenerativePart(gen.reading)>>)
        ELSE callGenerateContent(s, g, parts)
onloadend(s, g, ok) ==
    LET gen == s.gens[g]
        parts == Append(gen.parts, fileToGenerativePart(gen.reading))
    IN  IF ~ok THEN SetGen(s, g, "pending", <<>>, NULL)
        ELSE IF gen.pc = "awaitSketch" THEN addModelPart(s, g, parts)
        ELSE callGenerateContent(s, g, parts)

\* 6. the first part of the response carrying inlineData (0: none)
firstImage_last(parts, i) ==
    LET imgs == {j \in i .. Len(parts) : parts[j] # "text"} IN
    IF imgs = {} THEN 0 ELSE CHOOSE j \in imgs : \A k \in imgs : k <= j
RECURSIVE firstImage(_, _)
firstImage(parts, i) ==
    IF i > Len(parts) THEN 0
    ELSE IF parts[i] # "text" THEN i
    ELSE firstImage(parts, i + 1)

\* catch (error)
catchError(s, message) ==
    [s EXCEPT !.placeholderHidden = FALSE, !.placeholderHTML = message]

\* finally: 7. Reset UI state; the activation record is gone
finallyReset_keepLoading(s, g) ==
    [s EXCEPT !.btnDisabled = FALSE,
              !.gens[g] = IdleGen]
finallyReset(s, g) ==
    [s EXCEPT !.loadingHidden = TRUE,
              !.btnDisabled = FALSE,
              !.gens[g] = IdleGen]

\* the awaited generateContent settles: 6., catch, finally
afterGenerateContent(s, g, outcome) ==
    LET i == firstImage(outcome.parts, 1) IN
    IF ~outcome.ok THEN finallyReset(catchError(s, "service error"), g)
    ELSE IF i = 0
    THEN finallyReset(
            catchError(s, "API response did not contain an image."), g)
    ELSE finallyReset([s EXCEPT !.resultSrc = outcome.parts[i],
                                !.resultHidden = FALSE], g)

\* ---------------------------------------------------------------- Init
\* the state after the module has run: declarations, then updateUIState()
Started ==
    /\ sketchFile = NULL
    /\ modelFile = NULL
    /\ isDrawing = FALSE
    /\ hasDrawn = FALSE
    /\ canvas = {}
    /\ ctxPath = {}
    /\ ctxPen = NULL
    /\ disabled = {}
    /\ sketchInput = NULL
    /\ modelInput = NULL
    /\ sketchPreview = "none"
    /\ modelPreview = "none"
    /\ modelType \in ModelTypes
    /\ description = ""
    /\ realism = 50
    /\ realismValue = 50
    /\ btnDisabled = FALSE
    /\ placeholderHidden = FALSE
    /\ placeholderHTML = "initial"
    /\ resultHidden = TRUE
    /\ resultSrc = ""
    /\ loadingHidden = TRUE
    /\ gens = [g \in Gens |-> IdleGen]
    /\ ev = [name |-> "init", file |-> NULL, alert |-> FALSE,
             request |-> <<>>, settled |-> <<>>]

Init == Started /\ tracking = FALSE
\* the same program, observed with the click-time history switched on
InitTracking == Started /\ tracking = TRUE

\* ------------------------------------------------------------- actions
\* 'change' on sketchUploadInput: the picker left file f in the input
SketchChange(f) ==
    /\ f # sketchInput
    /\ LET s == [Cur EXCEPT !.sketchInput = f] IN
       Commit(IF f # NULL THEN sketchUploadListener(s) ELSE s,
              "sketchChange", f)

\* 'change' on modelUploadInput: the picker left file f (or none) in the input
ModelChange(f) ==
    /\ f # modelInput
    /\ LET s == [Cur EXCEPT !.modelInput = f] IN
       Commit(IF f # NULL THEN modelUploadListener(s) ELSE s,
              "modelChange", f)

\* 'input' on realismSlider
RealismInput(r) ==
    /\ r # realism
    /\ Commit([Cur EXCEPT !.realism = r, !.realismValue = r],
              "input", NULL)

\* the user edits the description / picks a preset: no listener runs
DescriptionInput(d) ==
    /\ d # description
    /\ Commit([Cur EXCEPT !.description = d], "input", NULL)

ModelTypeChange(t) ==
    /\ t # modelType
    /\ Commit([Cur EXCEPT !.modelType = t], "input", NULL)

\* mousedown / touchstart on the canvas at corrected position pos
StartDrawing(pos) == Commit(startDrawing(Cur, pos), "pointer", NULL)

\* mousemove / touchmove on the canvas: the pointer is at another position
Draw(pos) ==
    /\ pos # ctxPen
    /\ Commit(draw(Cur, pos), "pointer", NULL)

\* mouseup / mouseleave / touchend
StopDrawing == Commit(stopDrawing(Cur), "pointer", NULL)

\* click on clearCanvasBtn
ClearClick == Commit(clearCanvas(Cur), "clearClick", NULL)

\* history: a generation that suspends in the click handler remembers the
\* prompt values of the moment of the click
RecordAtClick(s, g) ==
    IF tracking /\ s.gens[g].pc \in {"awaitSketch", "awaitModel"}
    THEN [s EXCEPT !.gens[g].atClick = textPrompt(Cur)]
    ELSE s

\* click on generateBtn: a disabled button dispatches no click
GenerateClick(g) ==
    /\ ~btnDisabled
    /\ gens[g].pc = "idle"
    /\ \A h \in Gens : h < g => gens[h].pc # "idle"
    /\ Commit(RecordAtClick(handleGenerateClick(Cur, g), g),
              "generateClick", NULL)

\* the FileReader of generation g ends its read, loaded or failed
FileLoadEnd(g, ok) ==
    /\ gens[g].pc \in {"awaitSketch", "awaitModel"}
    /\ Commit(onloadend(Cur, g, ok), "loadend", NULL)

\* the generateContent call of generation g settles
ApiSettle(g, outcome) ==
    /\ gens[g].pc = "awaitApi"
    /\ Commit([afterGenerateContent(Cur, g, outcome)
                    EXCEPT !.settled = <<outcome>>],
              "apiSettle", NULL)

Next ==
    \/ \E f \in Files \cup {NULL} : SketchChange(f)
    \/ \E f \in Files \cup {NULL} : ModelChange(f)
    \/ \E r \in RealismValues : RealismInput(r)
    \/ \E d \in Descriptions : DescriptionInput(d)
    \/ \E t \in ModelTypes : ModelTypeChange(t)
    \/ \E pos \in Pos : StartDrawing(pos)
    \/ \E pos \in Pos : Draw(pos)
    \/ StopDrawing
    \/ ClearClick
    \/ \E g \in Gens : GenerateClick(g)
    \/ \E g \in Gens, ok \in BOOLEAN : FileLoadEnd(g, ok)
    \/ \E g \in Gens :
         /\ gens[g].pc = "awaitApi"
         /\ \E outcome \in Outcomes : ApiSettle(g, outcome)

Spec == Init /\ [][Next]_vars

TrackingSpec == InitTracking /\ [][Next]_vars

\* the runtime delivers every pending completion: a started file read ends
\* (loadend fires after load and after error alike) and the service call
\* settles
FairSpec ==
    /\ Spec
    /\ \A g \in Gens :
        /\ WF_vars(\E ok \in BOOLEAN : FileLoadEnd(g, ok))
        /\ WF_vars(\E outcome \in Outcomes : ApiSettle(g, outcome))

\* ----------------------------------------------------------- claims
InFlight(g) == gens[g].pc # "idle"
Busy == \E g \in Gens : InFlight(g)
\* the display and the generation state
DisplayVars == <<btnDisabled, loadingHidden, placeholderHidden,
                 placeholderHTML, resultHidden, resultSrc>>
SketchUploaded == ev.name = "sketchChange" /\ ev.file # NULL

\* C1: a click on the trigger with no sketch file and no drawn path calls
\* alert(), submits nothing, starts no generation, and leaves the trigger
\* control, the progress indicator, the placeholder and the result image
\* as they were.
C1_NoSketchRejected ==
    [][(sketchFile = NULL /\ ~hasDrawn /\ ev'.name = "generateClick")
        => /\ ev'.alert
           /\ ev'.request = <<>>
           /\ UNCHANGED gens
           /\ UNCHANGED DisplayVars]_vars

\* a rejected click while the image of an earlier generation is on display
C1_Witness ==
    /\ ev.name = "generateClick" /\ ev.alert
    /\ sketchFile = NULL /\ ~hasDrawn
    /\ ~resultHidden /\ resultSrc = "img2"

\* C2: the trigger control is disabled exactly while a generation is in
\* flight, at most one generation is in flight, and the control goes from
\* disabled to enabled in the step that completes a generation and in no
\* other step.
C2_OneInFlight ==
    /\ [](/\ Cardinality({g \in Gens : InFlight(g)}) <= 1
          /\ btnDisabled <=> Busy)
    /\ [][/\ ev'.name = "apiSettle" => (btnDisabled /\ ~btnDisabled')
          /\ (btnDisabled /\ ~btnDisabled') => (ev'.name = "apiSettle" /\ ~Busy')
         ]_vars

\* a generation that failed has completed and the control is enabled again
C2_Witness ==
    /\ ev.name = "apiSettle"
    /\ ~btnDisabled /\ ~Busy
    /\ placeholderHTML = "service error"

\* C3: every generation that passed validation leaves the busy state: the
\* progress indicator is hidden and the trigger control enabled again.
C3_LeavesBusy == btnDisabled ~> (~btnDisabled /\ loadingHidden)

\* C4: the parts submitted to the service are one sketch image part, then
\* a model image part exactly when a model-reference file exists, then the
\* one text part.
C4_RequestShape ==
    LET r == ev.request
        n == Len(r)
    IN  r # <<>> =>
        /\ n \in {2, 3}
        /\ r[1].kind = "inlineData"
        /\ r[1].data.src \in {"canvas", "file"}
        /\ (n = 3) <=> (modelFile # NULL)
        /\ n = 3 => (r[2].kind = "inlineData" /\ r[2].data.src = "file")
        /\ r[n].kind = "text"
        /\ Cardinality({i \in 1 .. n : r[i].kind = "text"}) = 1

\* a request of three parts has been submitted
C4_Witness ==
    /\ Len(ev.request) = 3
    /\ modelFile # NULL

\* C5: after a change event of the sketch input that carried a file, the
\* drawing surface is flagged disabled, and a pointer event handled next
\* changes neither hasDrawn, isDrawing nor the raster.
C5_UploadDisablesDrawing ==
    /\ [](SketchUploaded => "canvasBox" \in disabled)
    /\ [][(SketchUploaded /\ ev'.name = "pointer")
            => UNCHANGED <<hasDrawn, isDrawing, canvas>>]_vars

\* C6: a click on the trigger right after a change event of the sketch
\* input that carried a file passes validation and starts encoding that
\* file as the sketch part.
C6_UploadIsSketchSource ==
    [][(SketchUploaded /\ ev'.name = "generateClick")
        => /\ ~ev'.alert
           /\ \E g \in Gens : /\ gens'[g].pc = "awaitSketch"
                              /\ gens'[g].reading = ev.file]_vars

\* C7: an uploaded sketch file and a drawn path never coexist, and the
\* drawing surface and the sketch upload control are never both flagged
\* disabled.
C7_OneSketchSource ==
    /\ ~(sketchFile # NULL /\ hasDrawn)
    /\ ~({"canvasBox", "uploadBox"} \subseteq disabled)

\* a path has been drawn and stroked: the upload control is flagged
C7_Witness ==
    /\ hasDrawn /\ canvas # {}
    /\ sketchFile = NULL
    /\ disabled \cap {"canvasBox", "uploadBox"} = {"uploadBox"}

\* C8: the clear action leaves the raster blank, hasDrawn false, no sketch
\* file, the drawing surface and the upload control not flagged, and the
\* model-reference file, the generations and the display unchanged.
C8_ClearEffect ==
    [][ev'.name = "clearClick"
        => /\ canvas' = {}
           /\ ~hasDrawn'
           /\ sketchFile' = NULL /\ sketchInput' = NULL
           /\ disabled' \cap {"canvasBox", "uploadBox"} = {}
           /\ UNCHANGED <<modelFile, modelInput, gens>>
           /\ UNCHANGED DisplayVars]_vars

\* clear has run while a generation with a model file was in flight
C8_Witness ==
    /\ ev.name = "clearClick"
    /\ modelFile # NULL
    /\ Busy /\ btnDisabled

\* C9: right after a change event of the sketch input that carried a file,
\* hasDrawn is false and the raster is blank.
C9_UploadErasesDrawing == SketchUploaded => (~hasDrawn /\ canvas = {})

\* a file was uploaded over a stroke (the path still holds its two points)
C9_Witness ==
    /\ SketchUploaded
    /\ Cardinality(ctxPath) = 2
    /\ isDrawing

\* C10: the preset selector is flagged disabled exactly when the model
\* upload input holds a file.
C10_SelectorFollowsFile ==
    ("modelTypeSelect" \in disabled) <=> (modelInput # NULL)

\* the outcome of the generateContent call that settled in the last event
Settled == ev.settled[1]
\* the indices of the parts of a response that carry inline image data
ImageIndices(parts) == {i \in 1 .. Len(parts) : parts[i] \in {"img1", "img2"}}
\* the generation failed after validation: rejected, or no image part
FailedOutcome(o) == ~o.ok \/ ImageIndices(o.parts) = {}
NoImageMessage == "API response did not contain an image."

\* C11: after a generation that failed (call rejected, or a response
\* without image part) the placeholder is visible and shows the error, and
\* the result image is hidden.
C11_FailureShowsError ==
    (ev.name = "apiSettle" /\ FailedOutcome(Settled))
    => /\ ~placeholderHidden
       /\ placeholderHTML = IF Settled.ok THEN NoImageMessage
                            ELSE "service error"
       /\ resultHidden

\* a response without image arrived after an earlier generation had
\* succeeded (its image is still the src of the hidden result element)
C11_Witness ==
    /\ ev.name = "apiSettle"
    /\ Settled.ok /\ FailedOutcome(Settled)
    /\ resultSrc = "img1"

\* C12: after a response, the image shown is the part of lowest index
\* that carries image data, and the 'no image' error is shown exactly when
\* no part carries image data.
C12_FirstImageWins ==
    (ev.name = "apiSettle" /\ Settled.ok)
    => LET imgs == ImageIndices(Settled.parts)
           noImageShown == ~placeholderHidden /\ placeholderHTML = NoImageMessage
       IN  /\ noImageShown <=> (imgs = {})
           /\ imgs # {} =>
                /\ ~resultHidden
                /\ \E i \in imgs : /\ \A j \in imgs : i <= j
                                   /\ resultSrc = Settled.parts[i]

\* the image at the second index is shown, after a text part
C12_Witness ==
    /\ ev.name = "apiSettle"
    /\ Settled.ok /\ Settled.parts = <<"text", "img2">>
    /\ resultSrc = "img2" /\ ~resultHidden

\* part is the PNG encoding of raster
IsCanvasPNG(part, raster) ==
    /\ part.kind = "inlineData"
    /\ part.mimeType = "image/png"
    /\ part.data.src = "canvas"
    /\ part.data.raster = raster

\* C13: a click with a drawn path and no sketch file encodes the raster of
\* that moment as the first part, and while the generation awaits the
\* model file no event changes that part: it is the first part submitted.
C13_CanvasSnapshot ==
    [][/\ (hasDrawn /\ sketchFile = NULL /\ ev'.name = "generateClick")
          => /\ ev'.request # <<>> => IsCanvasPNG(ev'.request[1], canvas)
             /\ \A g \in Gens :
                  (gens[g].pc = "idle" /\ gens'[g].pc # "idle")
                  => /\ gens'[g].pc \in {"awaitModel", "awaitApi"}
                     /\ gens'[g].pc = "awaitModel"
                        => /\ Len(gens'[g].parts) = 1
                           /\ IsCanvasPNG(gens'[g].parts[1], canvas)
       /\ \A g \in Gens :
            gens[g].pc = "awaitModel"
            => /\ gens'[g].pc = "awaitModel" => gens'[g].parts = gens[g].parts
               /\ gens'[g].pc = "awaitApi"
                  => ev'.request[1] = gens[g].parts[1]]_vars

\* a request went out after the model file was read, and the raster has
\* changed since the click
C13_Witness ==
    /\ ev.name = "loadend"
    /\ Len(ev.request) = 3
    /\ ev.request[1].data.src = "canvas"
    /\ ev.request[1].data.raster # canvas

\* C14: a failed file read is surfaced: the step in which the read fails
\* ends the generation with an error message in the visible placeholder.
C14_ReadFailureSurfaced ==
    [][(\E g \in Gens : FileLoadEnd(g, FALSE))
        => /\ ~Busy'
           /\ ~placeholderHidden'
           /\ placeholderHTML' # "initial"]_vars

\* the parts encoded so far by the generations and by the last request
EncodedParts ==
    {ev.request[i] : i \in 1 .. Len(ev.request)} \cup
    UNION {{gens[g].parts[i] : i \in 1 .. Len(gens[g].parts)} : g \in Gens}

\* C15: the canvas is never encoded blank.
C15_NoBlankCanvasEncoded ==
    \A part \in EncodedParts : part.data.src = "canvas" => part.data.raster # {}

AffordanceElements == {"canvasBox", "uploadBox", "modelTypeSelect"}
\* the flags the state calls for
Projection ==
    {e \in AffordanceElements :
        \/ e = "canvasBox" /\ sketchFile # NULL
        \/ e = "uploadBox" /\ hasDrawn
        \/ e = "modelTypeSelect" /\ modelFile # NULL}

\* C16: after every handler the flags are the projection of the state, and
\* updateUIState yields the projection from any flags and is idempotent.
C16_FlagsAreProjection ==
    /\ disabled = Projection
    /\ LET s == Cur IN
       \A F \in SUBSET AffordanceElements :
         LET once == updateUIState([s EXCEPT !.disabled = F]) IN
         /\ once.disabled = disabled
         /\ updateUIState(once) = once

\* a path has been drawn and a model file uploaded: two flags are set
C16_Witness ==
    /\ hasDrawn /\ modelFile # NULL
    /\ disabled = {"uploadBox", "modelTypeSelect"}

\* C17: in every request the instruction says 'the uploaded model' exactly
\* when the request has a model image part, and names the selected preset
\* exactly when it has none.
C17_TextAgreesWithParts ==
    LET r == ev.request
        n == Len(r)
        info == r[n].text.modelInfo
        hasModelPart == \E i \in 2 .. n : r[i].kind = "inlineData"
    IN  r # <<>> =>
        /\ (info = "the uploaded model") <=> hasModelPart
        /\ ~hasModelPart =>
             \/ modelType = "female" /\ info = "a female model"
             \/ modelType = "male" /\ info = "a male model"

\* a request with a model part went out although another model file was
\* uploaded while the first one was being read
C17_Witness ==
    /\ ev.name = "loadend"
    /\ Len(ev.request) = 3
    /\ ev.request[2].data.file # modelFile
    /\ ev.request[3].text.modelInfo = "the uploaded model"

\* C18: the instruction of a request that goes out after a suspension
\* embeds the model info, the description and the realism of the moment
\* of the click.
C18_PromptIsClickSnapshot ==
    [][\A g \in Gens :
        (/\ tracking
         /\ gens[g].pc \in {"awaitSketch", "awaitModel"}
         /\ gens'[g].pc = "awaitApi")
        => ev'.request[Len(ev'.request)].text = gens[g].atClick]_vars

\* C19: whenever hasDrawn is false the raster is blank.
C19_NotDrawnMeansBlank == ~hasDrawn => canvas = {}

\* C20: exactly one of placeholder, progress indicator and result image is
\* visible; the progress indicator exactly while a generation is in
\* flight; after a generation, the result image exactly when it succeeded.
C20_OneVisible ==
    /\ Cardinality({x \in {"placeholder", "loading", "result"} :
          \/ x = "placeholder" /\ ~placeholderHidden
          \/ x = "loading" /\ ~loadingHidden
          \/ x = "result" /\ ~resultHidden}) = 1
    /\ ~loadingHidden <=> Busy
    /\ ~resultHidden => resultSrc \in {"img1", "img2"}
    /\ ev.name = "apiSettle" => (~resultHidden <=> ~FailedOutcome(Settled))
    /\ ev.name = "init" => ~placeholderHidden

\* a generation succeeded after an earlier one had failed: only the image
\* is visible, the hidden placeholder still holds the old error
C20_Witness ==
    /\ ev.name = "apiSettle" /\ ~FailedOutcome(Settled)
    /\ ~resultHidden /\ placeholderHidden /\ loadingHidden
    /\ placeholderHTML = "service error"

====
